---- MODULE Spec2Model ----
(***************************************************************************)
(* TwilioWeatherStation (src/TwilioLambdaHelper.cpp, .hpp): the heartbeat, *)
(* the observation sampler, the single alarm and the shadow/notification   *)
(* side effects, as a state machine.                                       *)
(*                                                                         *)
(* Time.  millis is the platform tick counter (ms).  The NTP client is an  *)
(* external library: its epoch is its time offset plus the UTC second of   *)
(* the current tick, its calendar fields are the usual functions of that   *)
(* epoch.  Epochs stay far below 2^31, so the int32 fields hold them       *)
(* exactly; floats are held as integers in hundredths, NaN as a flag.      *)
(***************************************************************************)
EXTENDS Integers, Sequences, FiniteSets, TLC

VARIABLES
    last_observation,       \* WObservation
    last_weather_check,     \* tick of the last sample attempt
    next_alarm,             \* struct Alarm {timestamp, rang}
    location_altitude,
    time_zone_offset,
    master_number,
    twilio_device_number,
    unit_type,
    timeClient,             \* the NTP client's settings
    millis,                 \* platform tick counter, ms
    out,                    \* publishes and sends made by the latest operation
    last                    \* the latest operation, its argument, what it started from

vars == <<last_observation, last_weather_check, next_alarm, location_altitude,
          time_zone_offset, master_number, twilio_device_number, unit_type,
          timeClient, millis, out, last>>

----------------------------------------------------------------------------
(* Program constants *)

RECHECK_WEATHER_INTERVAL == 3*60*1000

ALARM_WINDOW == (RECHECK_WEATHER_INTERVAL \div 1000) * 2

ONE_DAY == 86400

HPA_TO_IN_MERCURY == 2953

GRAVITATIONAL_ACCELERATION == 9807

ATM_JOULES_PER_KILOGRAM_KELVIN == 2871

SNPRINTF_SIZE == 160

InvalidConversionChars == {Len("H"), Len("% H")}

StrayTextChars == {0, 4, 200}

shadow_topic == "shadow_topic"

twilio_topic == "twilio_topic"

(* Bounds of the model *)

BootEpoch == 1500000000

MaxMillis == 540001

TickSteps == {RECHECK_WEATHER_INTERVAL, RECHECK_WEATHER_INTERVAL + 1}

AlarmInputs ==
    {0, BootEpoch + 179, BootEpoch + 180}

UnitInputs == {"metric", "imperial", "bogus"}

AltInputs == {0, 100}

TzInputs == {0, 3}

NumberInputs == {"+15550001", "+15550002"}

TransportInputs ==
    {[publish_ok |-> TRUE, send_ok |-> TRUE], [publish_ok |-> FALSE, send_ok |-> TRUE],
     [publish_ok |-> TRUE, send_ok |-> FALSE]}

TopicInputs == {shadow_topic}

IntroInputs ==
    {"", "Daily Report!\n",
     "Good morning from the weather station on the roof of the old boat house!\n"}

(* A week in the field: the ticks of the last second of each day, and of   *)
(* the first second after the first midnight                                *)
DayTicks == 86400000

LastSecondTick == 76799000

ReportTicks ==
    {d * DayTicks + LastSecondTick : d \in 0..6} \cup {LastSecondTick + 1000}

----------------------------------------------------------------------------
(* Floats: a value in hundredths, or NaN *)

Float(x) == [nan |-> FALSE, v |-> x]

NaN == [nan |-> TRUE, v |-> 0]

isnan(f) == f.nan

Truthy(f) == f.nan \/ f.v # 0

(* One reading of the two sensors: bmp.getEvent, dht.readHumidity,        *)
(* dht.readTemperature, bmp.getTemperature.                                *)
Reading(p, h, t, b) ==
    [pressure |-> p, humidity |-> h, dht_temperature |-> t, bmp_temperature |-> b]

GoodReading == Reading(Float(101325), Float(4000), Float(2000), Float(2200))

Readings ==
    { GoodReading,
      Reading(Float(0), Float(4000), Float(2000), Float(2200)),
      Reading(Float(101325), NaN, Float(2000), Float(2200)),
      Reading(Float(101325), Float(4000), NaN, Float(2200)) }

(* The ends of the sensors' ranges, the reading of a temperate day, and a   *)
(* fault                                                                    *)
ReportReadings ==
    { Reading(Float(30000), Float(0), Float(-4000), Float(-4000)),
      GoodReading,
      Reading(Float(110000), Float(10000), Float(8000), Float(8000)),
      Reading(Float(101325), NaN, Float(2000), Float(2200)) }

----------------------------------------------------------------------------
(* The time source *)

getEpochTime(tc, m) == tc.timeOffset + BootEpoch + (m \div 1000)

(* Variant: days are counted from one *)
getDay_OneBased(e) == (((e \div 86400) + 4) % 7) + 1

getDay(e) == ((e \div 86400) + 4) % 7

getHours(e) == (e % 86400) \div 3600

getMinutes(e) == (e % 3600) \div 60

getSeconds(e) == e % 60

----------------------------------------------------------------------------
(* Side effects *)

Publish(topic, section, alarm, units, alt, tz, tnum, mnum) ==
    [kind |-> "publish", topic |-> topic, section |-> section,
     doc |-> [alarm |-> alarm, units |-> units, alt |-> alt, tz |-> tz,
              t_num |-> tnum, m_num |-> mnum]]

Send(topic, to, from, body) ==
    [kind |-> "send", topic |-> topic, to |-> to, from |-> from,
     body |-> body, media |-> ""]

(* The calls on the time source that change or refresh it.  The source is  *)
(* taken to be in step with the network time at every read, so a refresh   *)
(* leaves only its trace in the calls of the operation.                    *)
setTimeOffset(st, offset) ==
    [st EXCEPT !.timeClient.timeOffset = offset,
               !.clock = Append(@, [call |-> "setTimeOffset", offset |-> offset])]

forceUpdate(st) == [st EXCEPT !.clock = Append(@, [call |-> "forceUpdate"])]

update(st) == [st EXCEPT !.clock = Append(@, [call |-> "update"])]

(* The calls on the pub/sub helper: what was handed over, and whether the   *)
(* helper got it out.  The station never looks at the result.               *)
publish_to_topic(st, msg) ==
    [st EXCEPT !.out = Append(@, msg @@ [ok |-> st.lambdaHelper.publish_ok])]

send_twilio_message(st, msg) ==
    [st EXCEPT !.out = Append(@, msg @@ [ok |-> st.lambdaHelper.send_ok])]

----------------------------------------------------------------------------
(* The station object as a record; the operations are functions on it *)

Self ==
    [last_observation     |-> last_observation,
     last_weather_check   |-> last_weather_check,
     next_alarm           |-> next_alarm,
     location_altitude    |-> location_altitude,
     time_zone_offset     |-> time_zone_offset,
     master_number        |-> master_number,
     twilio_device_number |-> twilio_device_number,
     unit_type            |-> unit_type,
     timeClient           |-> timeClient,
     clock                |-> <<>>,
     out                  |-> <<>>]

(* Arithmetic of the report.  A float of the observation is an integer in  *)
(* hundredths; inside the conversions a float is an integer in thousandths, *)
(* the precision the code rounds every conversion to.                       *)
Milli(hundredths) == hundredths * 10

round(n, d) ==
    IF n >= 0 THEN (2 * n + d) \div (2 * d) ELSE -((2 * (-n) + d) \div (2 * d))

(* round(x * num / den) for x >= 0, without leaving 32 bits *)
Scale(x, num, den) == (x \div den) * num + round((x % den) * num, den)

_celsius_to_fahrenheit(celsius) == round(celsius * 9, 5) + 32000

_hpa_to_in_mercury(hpa) == Scale(hpa, HPA_TO_IN_MERCURY, 100000)

_in_to_mm(inches) == round(254 * inches, 10)

(* e^x for x in millionths, to the third order (exact to the millionth for   *)
(* the altitudes of AltInputs), in millionths                               *)
pow_E(x) ==
    LET second == (x * x) \div 2000000
    IN  1000000 + x + second + (second * x) \div 3000000

(* scale_height in decimetres; the altitude parameter is not used, the      *)
(* station's own altitude is                                                *)
_hpa_to_sea_level(st, celsius, hpa, altitude) ==
    LET kelvin       == 273100 + celsius
        scale_height == Scale(kelvin, ATM_JOULES_PER_KILOGRAM_KELVIN,
                              GRAVITATIONAL_ACCELERATION)
        growth       == pow_E((st.location_altitude * 10000000) \div scale_height)
                            - 1000000
    IN  hpa + round((hpa \div 1000) * growth + ((hpa % 1000) * growth) \div 1000, 1000)

(* Variant: the formatted text is kept whole *)
snprintf_Unbounded(size, n) == n

(* snprintf(buf, size, ...): of n formatted characters, size - 1 are kept *)
snprintf(size, n) == IF n > size - 1 THEN size - 1 ELSE n

RECURSIVE Digits(_)
Digits(n) == IF n < 10 THEN 1 ELSE 1 + Digits(n \div 10)

(* dtostrf(val, 8, 2, buf): the value to two decimals, and the characters  *)
(* it takes, padded on the left to the minimum width                        *)
dtostrf(val, width) ==
    LET shown   == round(val, 10)
        natural == (IF shown < 0 THEN 1 ELSE 0) + Digits((IF shown < 0 THEN -shown ELSE shown) \div 100) + 3
    IN  [shown |-> shown, chars |-> IF natural > width THEN natural ELSE width]

DayNames == <<"Sun.", "Mon.", "Tue.", "Wed.", "Thu.", "Fri.", "Sat.">>

(* An index outside the table reads a pointer that is not there: the text  *)
(* is anything, of any of these lengths                                     *)
int_to_day(int_day) ==
    IF int_day \in 0..6
    THEN [text |-> DayNames[int_day + 1], chars |-> {Len(DayNames[int_day + 1])}]
    ELSE [text |-> "(beyond the table)", chars |-> StrayTextChars]

(* The report: its fields as they are shown, and the lengths the returned  *)
(* string can have.  "% H" is not a conversion of printf: a C library      *)
(* writes it as it stands or writes the H alone.                           *)
get_weather_report(st, intro) ==
    LET obs        == st.last_observation
        slvl_press == _hpa_to_sea_level(st, Milli(obs.humidity), Milli(obs.pressure),
                                        st.location_altitude)
        humidity   == dtostrf(Milli(obs.humidity), 8)
        pressure   == dtostrf(slvl_press, 8)
        imperial   == st.unit_type = "imperial"
        temperature ==
            IF imperial
            THEN dtostrf(_celsius_to_fahrenheit(Milli(obs.temperature)), 8)
            ELSE dtostrf(Milli(obs.temperature), 8)
        pressure_conv ==
            IF imperial
            THEN dtostrf(_hpa_to_in_mercury(slvl_press), 8)
            ELSE dtostrf(_in_to_mm(_hpa_to_in_mercury(slvl_press)), 8)
        f_or_c     == IF imperial THEN "F" ELSE "C"
        in_or_mm   == IF imperial THEN "in" ELSE "mm"
        day        == int_to_day(obs.day)
        rest       == Len(intro) + Len("Conditions as of ") + Len(" ")
                        + Digits(obs.hour) + Len(":") + Digits(obs.minute) + Len(":")
                        + Digits(obs.second) + Len("\n")
                        + temperature.chars + Len(" *") + Len(f_or_c) + Len("\n")
                        + humidity.chars + Len(" ") + Len("umidity\n")
                        + pressure.chars + Len(" hPc (") + pressure_conv.chars
                        + Len(" ") + Len(in_or_mm) + Len(" Hg)\n")
    IN  [intro |-> intro, day |-> day.text,
         hour |-> obs.hour, minute |-> obs.minute, second |-> obs.second,
         temperature |-> temperature.shown, f_or_c |-> f_or_c,
         humidity |-> humidity.shown,
         pressure |-> pressure.shown,
         pressure_conv |-> pressure_conv.shown, in_or_mm |-> in_or_mm,
         chars |-> {snprintf(SNPRINTF_SIZE, rest + d + h) :
                       d \in day.chars, h \in InvalidConversionChars}]

update_shadow_state(st, topic, new_alarm, new_units, new_alt, new_tz, new_tnum, new_mnum) ==
    publish_to_topic(st,
        Publish(topic, "desired", new_alarm, new_units, new_alt, new_tz,
                new_tnum, new_mnum))

report_shadow_state(st, topic) ==
    publish_to_topic(st,
        Publish(topic, "reported", st.next_alarm.timestamp, st.unit_type,
                st.location_altitude, st.time_zone_offset,
                st.twilio_device_number, st.master_number))

(* Variant: the message goes from the master number to the device number *)
_handle_alarm_SwappedNumbers(st) ==
    LET s1 == update_shadow_state(st, shadow_topic,
                  st.next_alarm.timestamp + ONE_DAY, st.unit_type,
                  st.location_altitude, st.time_zone_offset,
                  st.twilio_device_number, st.master_number)
        s2 == [s1 EXCEPT !.next_alarm.rang = TRUE]
    IN  send_twilio_message(s2,
            Send(twilio_topic, s2.twilio_device_number, s2.master_number,
                 get_weather_report(s2, "Daily Report!\n")))

(* Variant: a failed publish ends the handler *)
_handle_alarm_StopsOnFailure(st) ==
    LET s1 == update_shadow_state(st, shadow_topic,
                  st.next_alarm.timestamp + ONE_DAY, st.unit_type,
                  st.location_altitude, st.time_zone_offset,
                  st.twilio_device_number, st.master_number)
        s2 == [s1 EXCEPT !.next_alarm.rang = TRUE]
    IN  IF ~st.lambdaHelper.publish_ok
        THEN s1
        ELSE send_twilio_message(s2,
                Send(twilio_topic, s2.master_number, s2.twilio_device_number,
                     get_weather_report(s2, "Daily Report!\n")))

_handle_alarm(st) ==
    LET s1 == update_shadow_state(st, shadow_topic,
                  st.next_alarm.timestamp + ONE_DAY, st.unit_type,
                  st.location_altitude, st.time_zone_offset,
                  st.twilio_device_number, st.master_number)
        s2 == [s1 EXCEPT !.next_alarm.rang = TRUE]
    IN  send_twilio_message(s2,
            Send(twilio_topic, s2.master_number, s2.twilio_device_number,
                 get_weather_report(s2, "Daily Report!\n")))

SensorsOk(r) ==
    Truthy(r.pressure) /\ ~(isnan(r.humidity) \/ isnan(r.dht_temperature))

(* Variant: any epoch after the timestamp counts, however late *)
AlarmJustPassed_NoUpperBound(alarm, epoch) == epoch > alarm.timestamp

AlarmJustPassed(alarm, epoch) ==
    /\ epoch > alarm.timestamp
    /\ alarm.timestamp + ALARM_WINDOW > epoch

(* Variant: the time stamp is taken before the sensors are validated *)
make_observation_StampsFaults(st, r, m) ==
    LET e  == getEpochTime(st.timeClient, m)
        s0 == [st EXCEPT !.last_observation.day = getDay(e),
                         !.last_observation.hour = getHours(e),
                         !.last_observation.minute = getMinutes(e),
                         !.last_observation.second = getSeconds(e),
                         !.last_observation.epoch = e]
    IN  IF SensorsOk(r)
        THEN LET obs == [s0.last_observation EXCEPT
                            !.temperature = (r.dht_temperature.v + r.bmp_temperature.v) \div 2,
                            !.humidity    = r.humidity.v,
                            !.pressure    = r.pressure.v]
                 s1  == [s0 EXCEPT !.last_observation = obs]
             IN  IF ~s1.next_alarm.rang /\ AlarmJustPassed(s1.next_alarm, obs.epoch)
                 THEN _handle_alarm(s1)
                 ELSE s1
        ELSE s0

(* Variant: the alarm check does not look at rang *)
make_observation_IgnoresRang(st, r, m) ==
    IF SensorsOk(r)
    THEN LET e   == getEpochTime(st.timeClient, m)
             obs == [temperature |-> (r.dht_temperature.v + r.bmp_temperature.v) \div 2,
                     humidity    |-> r.humidity.v,
                     pressure    |-> r.pressure.v,
                     day         |-> getDay(e),
                     hour        |-> getHours(e),
                     minute      |-> getMinutes(e),
                     second      |-> getSeconds(e),
                     epoch       |-> e]
             s1  == [st EXCEPT !.last_observation = obs]
         IN  IF AlarmJustPassed(s1.next_alarm, obs.epoch)
             THEN _handle_alarm(s1)
             ELSE s1
    ELSE st

make_observation(st, r, m) ==
    IF SensorsOk(r)
    THEN LET e   == getEpochTime(st.timeClient, m)
             obs == [temperature |-> (r.dht_temperature.v + r.bmp_temperature.v) \div 2,
                     humidity    |-> r.humidity.v,
                     pressure    |-> r.pressure.v,
                     day         |-> getDay(e),
                     hour        |-> getHours(e),
                     minute      |-> getMinutes(e),
                     second      |-> getSeconds(e),
                     epoch       |-> e]
             s1  == [st EXCEPT !.last_observation = obs]
         IN  IF ~s1.next_alarm.rang /\ AlarmJustPassed(s1.next_alarm, obs.epoch)
             THEN _handle_alarm(s1)
             ELSE s1
    ELSE st

(* Variant: the comparison with the observation epoch is reversed *)
update_alarm_ReversedCompare(st, alarm_in) ==
    IF st.next_alarm.timestamp = alarm_in
    THEN st
    ELSE [st EXCEPT !.next_alarm =
            [timestamp |-> alarm_in,
             rang      |-> (st.last_observation.epoch < alarm_in \/ alarm_in = 0)]]

(* Variant: a timestamp in the past is armed like a future one *)
update_alarm_ArmsPast(st, alarm_in) ==
    IF st.next_alarm.timestamp = alarm_in
    THEN st
    ELSE [st EXCEPT !.next_alarm =
            [timestamp |-> alarm_in, rang |-> (alarm_in = 0)]]

(* Variant: zero is not recognised as "alarms off" *)
update_alarm_NoZeroCheck(st, alarm_in) ==
    IF st.next_alarm.timestamp = alarm_in
    THEN st
    ELSE [st EXCEPT !.next_alarm =
            [timestamp |-> alarm_in,
             rang      |-> (st.last_observation.epoch > alarm_in)]]

(* Variant: a timestamp is rung only once its whole window has passed *)
update_alarm_ArmsInsideWindow(st, alarm_in) ==
    IF st.next_alarm.timestamp = alarm_in
    THEN st
    ELSE [st EXCEPT !.next_alarm =
            [timestamp |-> alarm_in,
             rang      |-> (st.last_observation.epoch >= alarm_in + ALARM_WINDOW
                            \/ alarm_in = 0)]]

(* Variant: a repeated timestamp re-arms the alarm instead of being ignored *)
update_alarm_RearmsOnRepeat(st, alarm_in) ==
    IF st.next_alarm.timestamp = alarm_in
    THEN [st EXCEPT !.next_alarm.rang = FALSE]
    ELSE [st EXCEPT !.next_alarm =
            [timestamp |-> alarm_in,
             rang      |-> (st.last_observation.epoch > alarm_in \/ alarm_in = 0)]]

update_alarm(st, alarm_in) ==
    IF st.next_alarm.timestamp = alarm_in
    THEN st
    ELSE [st EXCEPT !.next_alarm =
            [timestamp |-> alarm_in,
             rang      |-> (st.last_observation.epoch > alarm_in \/ alarm_in = 0)]]

(* Variant: any string is stored as the unit system *)
update_units_StoresAnything(st, units_in) == [st EXCEPT !.unit_type = units_in]

update_units(st, units_in) ==
    IF units_in = "imperial" \/ units_in = "metric"
    THEN [st EXCEPT !.unit_type = units_in]
    ELSE st

update_alt(st, alt_in) == [st EXCEPT !.location_altitude = alt_in]

(* Variant: the offset is stored but the time source keeps its own *)
update_tz_ClockKeepsOffset(st, tz_in) ==
    forceUpdate([st EXCEPT !.time_zone_offset = tz_in])

update_tz(st, tz_in) ==
    LET s1 == [st EXCEPT !.time_zone_offset = tz_in]
    IN  forceUpdate(setTimeOffset(s1, s1.time_zone_offset * 60))

update_tnum(st, tnum_in) == [st EXCEPT !.twilio_device_number = tnum_in]

(* Variant: the master number is copied over the device number as well *)
update_mnum_BothNumbers(st, mnum_in) ==
    [st EXCEPT !.master_number = mnum_in, !.twilio_device_number = mnum_in]

update_mnum(st, mnum_in) == [st EXCEPT !.master_number = mnum_in]

(* millis() is an unsigned long of 32 bits and wraps modulo 2^32.  A tick   *)
(* is written as the integer with the same 32 bits: a tick t of the upper  *)
(* half, 2^31 <= t < 2^32, is written t - 2^32.                            *)
INT32_MAX == 2147483647

(* a + d modulo 2^32, for 0 <= d <= INT32_MAX *)
uint32_add(a, d) ==
    IF a > INT32_MAX - d
    THEN ((a - INT32_MAX) - 1) + ((d - INT32_MAX) - 1)
    ELSE a + d

(* a < b as unsigned values *)
uint32_less(a, b) == IF (a < 0) = (b < 0) THEN a < b ELSE b < 0

(* Variant: the gate opens at the interval, not past it *)
GateOpen_AtInterval(m, lwc) == m >= lwc + RECHECK_WEATHER_INTERVAL

(* last_weather_check is a uint64_t that holds a tick; the sum with the     *)
(* interval is taken in 64 bits and does not wrap, so when it passes 2^32  *)
(* no tick is greater.                                                      *)
GateOpen(m, lwc) ==
    IF lwc < 0 /\ lwc >= 0 - RECHECK_WEATHER_INTERVAL
    THEN FALSE
    ELSE uint32_less(uint32_add(lwc, RECHECK_WEATHER_INTERVAL), m)

(* Variant: the last sample tick is kept when the sensors fault *)
yield_ResetsOnSuccess(st, m, r) ==
    LET s0 == update(st)
    IN  IF GateOpen(m, s0.last_weather_check) /\ SensorsOk(r)
        THEN make_observation([s0 EXCEPT !.last_weather_check = m], r, m)
        ELSE s0

yield(st, m, r) ==
    LET s0 == update(st)
    IN  IF GateOpen(m, s0.last_weather_check)
        THEN make_observation([s0 EXCEPT !.last_weather_check = m], r, m)
        ELSE s0

(* Variant: the alarm starts un-rung *)
Bootstrap_Unrung(st, next_alarm_in) ==
    update_alarm([st EXCEPT !.next_alarm = [timestamp |-> 0, rang |-> FALSE]],
                 next_alarm_in)

Bootstrap(st, next_alarm_in) ==
    update_alarm([st EXCEPT !.next_alarm = [timestamp |-> 0, rang |-> TRUE]],
                 next_alarm_in)

Constructor(tz_in, alt_in, next_alarm_in, master_in, device_in, unit_in, lambdaHelperIn, m) ==
    Bootstrap(
        [last_observation     |-> [temperature |-> 0, humidity |-> 0, pressure |-> 0,
                                   day |-> 0, hour |-> 0, minute |-> 0, second |-> 0,
                                   epoch |-> 0],
         last_weather_check   |-> m,
         next_alarm           |-> [timestamp |-> 0, rang |-> TRUE],
         location_altitude    |-> alt_in,
         time_zone_offset     |-> tz_in,
         master_number        |-> master_in,
         twilio_device_number |-> device_in,
         unit_type            |-> unit_in,
         timeClient           |-> [timeOffset |-> tz_in * 60],
         lambdaHelper         |-> lambdaHelperIn,
         clock                |-> <<[call |-> "begin"], [call |-> "update"]>>,
         out                  |-> <<>>],
        next_alarm_in)

----------------------------------------------------------------------------
(* The state machine *)

Becomes(st) ==
    /\ last_observation'     = st.last_observation
    /\ last_weather_check'   = st.last_weather_check
    /\ next_alarm'           = st.next_alarm
    /\ location_altitude'    = st.location_altitude
    /\ time_zone_offset'     = st.time_zone_offset
    /\ master_number'        = st.master_number
    /\ twilio_device_number' = st.twilio_device_number
    /\ unit_type'            = st.unit_type
    /\ timeClient'           = st.timeClient
    /\ out'                  = st.out

StationFields ==
    {"last_observation", "last_weather_check", "next_alarm", "location_altitude",
     "time_zone_offset", "master_number", "twilio_device_number", "unit_type",
     "timeClient"}

Changed(pre, post) == {f \in StationFields : pre[f] # post[f]}

(* The latest operation: its name, its integer or string argument, whether  *)
(* it ran the sampler and whether the sensors were good, whether it repeats *)
(* the call before it, what it returned; of the state it started from, the  *)
(* alarm, the observation epoch and the last sample tick; and the fields of *)
(* the station it changed and the calls it made on the time source.         *)
Op(name, arg, input, sampled, ok, repeat, pre, post, ret) ==
    [op |-> name, arg |-> arg, input |-> input, sampled |-> sampled, ok |-> ok,
     repeat |-> repeat, ret |-> ret, clock |-> post.clock,
     alarm |-> pre.next_alarm, epoch |-> pre.last_observation.epoch,
     check |-> pre.last_weather_check,
     changed |-> Changed(pre, post)]

Init ==
    \E tz \in TzInputs, alt \in AltInputs, a \in AlarmInputs,
       mn \in NumberInputs, dn \in NumberInputs, u \in UnitInputs, r \in Readings,
       net \in TransportInputs :
        LET s0 == Constructor(tz, alt, a, mn, dn, u, net, 0)
            s1 == make_observation(s0, r, 0)
        IN  /\ millis = 0
            /\ last_observation     = s1.last_observation
            /\ last_weather_check   = s1.last_weather_check
            /\ next_alarm           = s1.next_alarm
            /\ location_altitude    = s1.location_altitude
            /\ time_zone_offset     = s1.time_zone_offset
            /\ master_number        = s1.master_number
            /\ twilio_device_number = s1.twilio_device_number
            /\ unit_type            = s1.unit_type
            /\ timeClient           = s1.timeClient
            /\ out                  = s1.out
            /\ last = Op("construct", a, u, TRUE, SensorsOk(r), FALSE, s0, s1, "void")

(* The transport answers only when the sampler gets as far as the alarm *)
TransportAsked(m, r) ==
    IF GateOpen(m, last_weather_check) /\ SensorsOk(r)
    THEN TransportInputs
    ELSE {[publish_ok |-> TRUE, send_ok |-> TRUE]}

Yield ==
    \E d \in TickSteps, r \in Readings : \E net \in TransportAsked(millis + d, r) :
        \E m \in {millis + d} : \E pre \in {Self @@ [lambdaHelper |-> net]} :
          \E post \in {yield(pre, m, r)} :
            /\ m <= MaxMillis
            /\ millis' = m
            /\ Becomes(post)
            /\ last' = Op("yield", 0, "", GateOpen(m, last_weather_check),
                          GateOpen(m, last_weather_check) /\ SensorsOk(r),
                          FALSE, pre, post, "void")

UpdateAlarm ==
    \E a \in AlarmInputs :
        \E pre \in {Self} : \E post \in {update_alarm(pre, a)} :
            /\ Becomes(post)
            /\ last' = Op("update_alarm", a, "", FALSE, FALSE,
                          last.op = "update_alarm" /\ last.arg = a,
                          pre, post, "void")
            /\ UNCHANGED millis

UpdateUnits ==
    \E u \in UnitInputs :
        \E pre \in {Self} : \E post \in {update_units(pre, u)} :
            /\ Becomes(post)
            /\ last' = Op("update_units", 0, u, FALSE, FALSE, FALSE, pre, post, "void")
            /\ UNCHANGED millis

UpdateAlt ==
    \E a \in AltInputs :
        \E pre \in {Self} : \E post \in {update_alt(pre, a)} :
            /\ Becomes(post)
            /\ last' = Op("update_alt", a, "", FALSE, FALSE, FALSE, pre, post, "void")
            /\ UNCHANGED millis

UpdateTz ==
    \E tz \in TzInputs :
        \E pre \in {Self} : \E post \in {update_tz(pre, tz)} :
            /\ Becomes(post)
            /\ last' = Op("update_tz", tz, "", FALSE, FALSE, FALSE, pre, post, "void")
            /\ UNCHANGED millis

UpdateTnum ==
    \E n \in NumberInputs :
        \E pre \in {Self} : \E post \in {update_tnum(pre, n)} :
            /\ Becomes(post)
            /\ last' = Op("update_tnum", 0, n, FALSE, FALSE, FALSE, pre, post, "void")
            /\ UNCHANGED millis

UpdateMnum ==
    \E n \in NumberInputs :
        \E pre \in {Self} : \E post \in {update_mnum(pre, n)} :
            /\ Becomes(post)
            /\ last' = Op("update_mnum", 0, n, FALSE, FALSE, FALSE, pre, post, "void")
            /\ UNCHANGED millis

ReportShadowState ==
    \E t \in TopicInputs, net \in TransportInputs :
        \E pre \in {Self @@ [lambdaHelper |-> net]} : \E post \in {report_shadow_state(pre, t)} :
            /\ Becomes(post)
            /\ last' = Op("report_shadow_state", 0, t, FALSE, FALSE, FALSE,
                          pre, post, "void")
            /\ UNCHANGED millis

Next ==
    \/ Yield
    \/ UpdateAlarm
    \/ UpdateUnits
    \/ UpdateAlt
    \/ UpdateTz
    \/ UpdateTnum
    \/ UpdateMnum
    \/ ReportShadowState

Spec == Init /\ [][Next]_vars

----------------------------------------------------------------------------
(* The station through a week in the field: sensors at the ends of their   *)
(* ranges, heartbeats around every midnight, reports asked for at any      *)
(* moment.                                                                  *)

InitReport ==
    \E alt \in AltInputs, u \in UnitInputs, r \in ReportReadings,
       a \in {0, BootEpoch + (LastSecondTick \div 1000) - 1} :
        \E net \in {[publish_ok |-> TRUE, send_ok |-> TRUE]} :
        LET s0 == Constructor(0, alt, a, "+15550001", "+15550002", u, net, 0)
            s1 == make_observation(s0, r, 0)
        IN  /\ millis = 0
            /\ last_observation     = s1.last_observation
            /\ last_weather_check   = s1.last_weather_check
            /\ next_alarm           = s1.next_alarm
            /\ location_altitude    = s1.location_altitude
            /\ time_zone_offset     = s1.time_zone_offset
            /\ master_number        = s1.master_number
            /\ twilio_device_number = s1.twilio_device_number
            /\ unit_type            = s1.unit_type
            /\ timeClient           = s1.timeClient
            /\ out                  = s1.out
            /\ last = Op("construct", a, u, TRUE, SensorsOk(r), FALSE, s0, s1, "void")

YieldInTheField ==
    \E m \in ReportTicks, r \in ReportReadings :
        \E pre \in {Self @@ [lambdaHelper |-> [publish_ok |-> TRUE, send_ok |-> TRUE]]} :
          \E post \in {yield(pre, m, r)} :
            /\ m > millis
            /\ millis' = m
            /\ Becomes(post)
            /\ last' = Op("yield", 0, "", GateOpen(m, last_weather_check),
                          GateOpen(m, last_weather_check) /\ SensorsOk(r),
                          FALSE, pre, post, "void")

GetWeatherReport ==
    \E intro \in IntroInputs :
        \E pre \in {Self} :
            /\ Becomes(pre)
            /\ last' = Op("get_weather_report", 0, intro, FALSE, FALSE, FALSE,
                          pre, pre, get_weather_report(pre, intro))
            /\ UNCHANGED millis

NextReport ==
    \/ YieldInTheField
    \/ GetWeatherReport
    \/ UpdateUnits
    \/ UpdateAlt

SpecReport == InitReport /\ [][NextReport]_vars

----------------------------------------------------------------------------
(* The alarm over the life of the station: the same operations, with a     *)
(* record kept of how many times each timestamp has taken the firing       *)
(* transition and of whether the observation epochs have ever gone back    *)
(* (they do when update_tz lowers the offset of the time source).          *)

AlarmTzInputs == {0, 4}

AlarmReadings == {GoodReading, Reading(Float(0), Float(4000), Float(2000), Float(2200))}

AlarmTimes == AlarmInputs \ {0}

(* The firing transition: the sampler found the alarm un-rung and left it rung *)
FiringOf(pre, post) == ~pre.next_alarm.rang /\ post.next_alarm.rang

Firings(fired, pre, post) ==
    [t \in AlarmTimes |->
        IF FiringOf(pre, post) /\ pre.next_alarm.timestamp = t
        THEN fired[t] + 1
        ELSE fired[t]]

Ordered(ordered, pre, post) ==
    ordered /\ post.last_observation.epoch >= pre.last_observation.epoch

InitAlarm ==
    \E tz \in AlarmTzInputs, a \in AlarmInputs, r \in AlarmReadings :
        \E net \in {[publish_ok |-> TRUE, send_ok |-> TRUE]} :
        LET s0 == Constructor(tz, 0, a, "+15550001", "+15550002", "metric", net, 0)
            s1 == make_observation(s0, r, 0)
        IN  /\ millis = 0
            /\ last_observation     = s1.last_observation
            /\ last_weather_check   = s1.last_weather_check
            /\ next_alarm           = s1.next_alarm
            /\ location_altitude    = s1.location_altitude
            /\ time_zone_offset     = s1.time_zone_offset
            /\ master_number        = s1.master_number
            /\ twilio_device_number = s1.twilio_device_number
            /\ unit_type            = s1.unit_type
            /\ timeClient           = s1.timeClient
            /\ out                  = s1.out
            /\ last = [fired   |-> Firings([t \in AlarmTimes |-> 0], s0, s1),
                       ordered |-> TRUE]
                      @@ Op("construct", a, "metric", TRUE, SensorsOk(r), FALSE,
                            s0, s1, "void")

YieldAlarm ==
    \E d \in TickSteps, r \in AlarmReadings :
        \E m \in {millis + d} :
          \E pre \in {Self @@ [lambdaHelper |-> [publish_ok |-> TRUE, send_ok |-> TRUE]]} :
            \E post \in {yield(pre, m, r)} :
              /\ m <= MaxMillis
              /\ millis' = m
              /\ Becomes(post)
              /\ last' = [fired   |-> Firings(last.fired, pre, post),
                          ordered |-> Ordered(last.ordered, pre, post)]
                         @@ Op("yield", 0, "", GateOpen(m, last_weather_check),
                               GateOpen(m, last_weather_check) /\ SensorsOk(r),
                               FALSE, pre, post, "void")

UpdateAlarmLater ==
    \E a \in AlarmInputs :
        \E pre \in {Self} : \E post \in {update_alarm(pre, a)} :
            /\ Becomes(post)
            /\ last' = [fired |-> last.fired, ordered |-> last.ordered]
                       @@ Op("update_alarm", a, "", FALSE, FALSE,
                             last.op = "update_alarm" /\ last.arg = a,
                             pre, post, "void")
            /\ UNCHANGED millis

UpdateTzLater ==
    \E tz \in AlarmTzInputs :
        \E pre \in {Self} : \E post \in {update_tz(pre, tz)} :
            /\ Becomes(post)
            /\ last' = [fired |-> last.fired, ordered |-> last.ordered]
                       @@ Op("update_tz", tz, "", FALSE, FALSE, FALSE, pre, post, "void")
            /\ UNCHANGED millis

NextAlarm ==
    \/ YieldAlarm
    \/ UpdateAlarmLater
    \/ UpdateTzLater

SpecAlarm == InitAlarm /\ [][NextAlarm]_vars

----------------------------------------------------------------------------
(* The station left running for weeks: the heartbeat is called at ticks    *)
(* that advance for ever, through the wrap of the tick counter.  The ticks *)
(* are taken around the wrap: the first sample ticks after 0, the middle   *)
(* of the range, and the last ticks before 2^32 (written -1 for 2^32 - 1,  *)
(* and so on).  As the counter goes round, any other tick lies ahead of    *)
(* the current one.  The sensors are disconnected, so every sample attempt *)
(* ends in the fault branch and the time source is never read.             *)

WrapTicks ==
    {0, RECHECK_WEATHER_INTERVAL, RECHECK_WEATHER_INTERVAL + 1,
     2 * (RECHECK_WEATHER_INTERVAL + 1), 3 * (RECHECK_WEATHER_INTERVAL + 1),
     INT32_MAX, 0 - INT32_MAX,
     0 - 3 * (RECHECK_WEATHER_INTERVAL + 1), 0 - 2 * (RECHECK_WEATHER_INTERVAL + 1),
     0 - (RECHECK_WEATHER_INTERVAL + 1), 0 - RECHECK_WEATHER_INTERVAL, 0 - 1}

FaultReading == Reading(Float(0), NaN, NaN, Float(0))

InitWrap ==
    \E net \in {[publish_ok |-> TRUE, send_ok |-> TRUE]} :
        LET s0 == Constructor(0, 0, 0, "+15550001", "+15550002", "metric", net, 0)
            s1 == make_observation(s0, FaultReading, 0)
        IN  /\ millis = 0
            /\ last_observation     = s1.last_observation
            /\ last_weather_check   = s1.last_weather_check
            /\ next_alarm           = s1.next_alarm
            /\ location_altitude    = s1.location_altitude
            /\ time_zone_offset     = s1.time_zone_offset
            /\ master_number        = s1.master_number
            /\ twilio_device_number = s1.twilio_device_number
            /\ unit_type            = s1.unit_type
            /\ timeClient           = s1.timeClient
            /\ out                  = s1.out
            /\ last = Op("construct", 0, "metric", TRUE, FALSE, FALSE, s0, s1, "void")

YieldAt(m) ==
    \E pre \in {Self @@ [lambdaHelper |-> [publish_ok |-> TRUE, send_ok |-> TRUE]]} :
        \E post \in {yield(pre, m, FaultReading)} :
            /\ m # millis
            /\ millis' = m
            /\ Becomes(post)
            /\ last' = Op("yield", 0, "", GateOpen(m, last_weather_check), FALSE,
                          FALSE, pre, post, "void")

YieldForWeeks == \E m \in WrapTicks : YieldAt(m)

NextWrap == YieldForWeeks

(* loop() of the sketch calls the heartbeat every few milliseconds for as  *)
(* long as the station is powered: no tick is passed over for ever.        *)
SpecWrap == InitWrap /\ [][NextWrap]_vars /\ \A t \in WrapTicks : WF_vars(YieldAt(t))

----------------------------------------------------------------------------
(* Vocabulary of the claims.  A sample is a run of make_observation, from   *)
(* the heartbeat or from the constructor; last holds the alarm and the     *)
(* observation epoch it started from.                                      *)

sample_interval == RECHECK_WEATHER_INTERVAL \div 1000

T0 == last.alarm.timestamp

E0 == last.epoch

E1 == last_observation.epoch

SampledOk == last.sampled /\ last.ok

AlarmCalled == last.op = "update_alarm"

Publishes == {i \in 1..Len(out) : out[i].kind = "publish"}

DesiredPublishes == {i \in Publishes : out[i].section = "desired"}

Sends == {i \in 1..Len(out) : out[i].kind = "send"}

NotifiedOnce == Cardinality(DesiredPublishes) = 1 /\ Cardinality(Sends) = 1

Notified == DesiredPublishes # {} \/ Sends # {}

ConfigOf(alarm) ==
    [alarm |-> alarm, units |-> unit_type, alt |-> location_altitude,
     tz |-> time_zone_offset, t_num |-> twilio_device_number,
     m_num |-> master_number]

(* C1: a successful sample of an Armed alarm with timestamp T whose epoch E *)
(* satisfies T < E <= T + 2*sample_interval sets rang and notifies exactly  *)
(* once; a sample of an alarm that has already rung does not fire again.    *)
C1_FiresUpToTwoIntervals ==
    /\ (SampledOk /\ ~last.alarm.rang /\ T0 < E1 /\ E1 <= T0 + 2 * sample_interval)
           => (next_alarm.rang /\ NotifiedOnce)
    /\ (SampledOk /\ last.alarm.rang) => (next_alarm.rang /\ ~Notified)

(* C2: update_alarm(T) with T # 0, T different from the current timestamp   *)
(* and T <= last_observation.epoch leaves the alarm Rung.                   *)
C2_AtOrBeforeEpochIsRung ==
    (AlarmCalled /\ last.arg # 0 /\ last.arg # T0 /\ last.arg <= E0)
        => next_alarm.rang

(* C2 as amended: with T strictly before the latest observation epoch the   *)
(* result is Rung with timestamp T; with T equal to it the result is Armed. *)
C2_BeforeEpochIsRung ==
    /\ (AlarmCalled /\ last.arg # 0 /\ last.arg # T0 /\ last.arg < E0)
           => next_alarm = [timestamp |-> last.arg, rang |-> TRUE]
    /\ (AlarmCalled /\ last.arg # 0 /\ last.arg # T0 /\ last.arg = E0)
           => next_alarm = [timestamp |-> last.arg, rang |-> FALSE]

C2_Witness ==
    /\ AlarmCalled /\ last.arg # 0 /\ last.arg # T0 /\ last.arg < E0
    /\ ~last.alarm.rang
    /\ next_alarm.rang

(* C3: when the first successful sample after T has an epoch beyond         *)
(* T + 2*sample_interval, that sample marks the Armed alarm rung, silently. *)
C3_MissedWindowMarksRung ==
    (SampledOk /\ ~last.alarm.rang /\ T0 > 0 /\ E0 <= T0
               /\ E1 > T0 + 2 * sample_interval)
        => (next_alarm.rang /\ ~Notified)

(* C3 as amended: such a sample is silent and leaves the alarm as it was,   *)
(* Armed with its timestamp behind the observation epoch.                   *)
C3_MissedWindowStaysArmed ==
    (SampledOk /\ ~last.alarm.rang /\ T0 > 0 /\ E0 <= T0
               /\ E1 > T0 + 2 * sample_interval)
        => (next_alarm = last.alarm /\ ~next_alarm.rang /\ ~Notified)

C3_Witness ==
    /\ SampledOk /\ last.op = "yield" /\ ~last.alarm.rang /\ T0 > 0 /\ E0 <= T0
    /\ E1 > T0 + 2 * sample_interval
    /\ ~next_alarm.rang

(* C4: with an alarm Armed at T and consecutive successful samples at most  *)
(* 2*sample_interval apart, the sample that first passes T fires the alarm. *)
C4_FiresWhenOneTickSkipped ==
    (SampledOk /\ last.op = "yield" /\ ~last.alarm.rang
               /\ 0 < E0 /\ E0 <= T0 /\ T0 < E1
               /\ E1 - E0 <= 2 * sample_interval)
        => (next_alarm.rang /\ NotifiedOnce)

(* The firing transition ran: a successful sample of an Armed alarm whose  *)
(* epoch is inside the window the code tests.                               *)
Fired ==
    SampledOk /\ ~last.alarm.rang /\ T0 < E1 /\ E1 < T0 + 2 * sample_interval

(* C5: the firing transition sets rang, publishes one desired document on   *)
(* the shadow topic with alarm = T + 86400 and the local configuration,     *)
(* sends one message from the device identity to the master identity, and   *)
(* keeps the local timestamp T.                                             *)
C5_FiringEffects ==
    Fired =>
        /\ next_alarm = [timestamp |-> T0, rang |-> TRUE]
        /\ Cardinality(Publishes) = 1 /\ Cardinality(Sends) = 1
        /\ \A i \in Publishes :
               /\ out[i].topic = shadow_topic
               /\ out[i].section = "desired"
               /\ out[i].doc = ConfigOf(T0 + 86400)
        /\ \A i \in Sends :
               /\ out[i].from = twilio_device_number
               /\ out[i].to = master_number

C5_Witness ==
    /\ Fired /\ last.op = "yield"
    /\ next_alarm.rang /\ NotifiedOnce
    /\ twilio_device_number # master_number

(* C6: a desired-alarm publish or an outbound message is made only by a     *)
(* successful sample that started Armed and whose epoch crossed the         *)
(* timestamp within the detection window; never by update_alarm, a setter,  *)
(* a failed sample or a heartbeat that does not sample.                     *)
C6_NotifiedOnlyBySample ==
    Notified =>
        /\ last.op \in {"yield", "construct"}
        /\ SampledOk
        /\ ~last.alarm.rang
        /\ T0 < E1 /\ E1 <= T0 + 2 * sample_interval

C6_Witness ==
    /\ Notified /\ last.op = "yield" /\ SampledOk
    /\ \E i \in Sends : out[i].to = master_number

(* C7: a second consecutive update_alarm(T) changes nothing of the station  *)
(* and makes no publish or send.                                            *)
C7_UpdateAlarmIdempotent ==
    [][(last.op = "update_alarm" /\ last'.op = "update_alarm" /\ last'.arg = last.arg)
        => (/\ UNCHANGED <<last_observation, last_weather_check, next_alarm,
                           location_altitude, time_zone_offset, master_number,
                           twilio_device_number, unit_type, timeClient, millis>>
            /\ out' = <<>>)]_vars

C7_Witness ==
    /\ AlarmCalled /\ last.repeat
    /\ last.arg # 0 /\ next_alarm.timestamp = last.arg /\ next_alarm.rang

(* C8: update_alarm(0) results in timestamp = 0 and rang = true.            *)
C8_ZeroDisables ==
    (AlarmCalled /\ last.arg = 0) => next_alarm = [timestamp |-> 0, rang |-> TRUE]

C8_Witness ==
    /\ AlarmCalled /\ last.arg = 0
    /\ T0 # 0 /\ ~last.alarm.rang
    /\ next_alarm.rang

(* C9: a disabled alarm is marked rung: timestamp = 0 implies rang.         *)
C9_DisabledIsRung == next_alarm.timestamp = 0 => next_alarm.rang

C9_Witness ==
    /\ next_alarm.timestamp = 0 /\ next_alarm.rang
    /\ SampledOk /\ last.op = "yield" /\ ~Notified

(* C10: rang goes from true to false only in update_alarm(new_ts) with      *)
(* new_ts different from the current timestamp, new_ts # 0 and new_ts in    *)
(* the future of the latest observation epoch.                              *)
C10_RearmOnlyFuture ==
    (last.alarm.rang /\ ~next_alarm.rang)
        => (AlarmCalled /\ last.arg # T0 /\ last.arg # 0 /\ last.arg > E0)

(* C10 as amended: new_ts at or after the latest observation epoch.         *)
C10_RearmOnlyNotPast ==
    (last.alarm.rang /\ ~next_alarm.rang)
        => (AlarmCalled /\ last.arg # T0 /\ last.arg # 0 /\ last.arg >= E0)

C10_Witness ==
    /\ last.alarm.rang /\ ~next_alarm.rang
    /\ AlarmCalled /\ last.arg > E0 /\ E0 > 0

(* C11: a sample whose sensor read reports a fault (pressure zero, humidity *)
(* NaN or temperature NaN) leaves every field of the last observation and   *)
(* the alarm as they were, and notifies nobody.                             *)
SampledFault == last.sampled /\ ~last.ok

C12_UnitsRecognized == unit_type \in {"metric", "imperial"}

(* C13: update_units with a value other than "imperial" or "metric" leaves  *)
(* the unit system unchanged and reports the rejection to the caller        *)
(* through the operation's outcome.                                         *)
InvalidUnits ==
    last.op = "update_units" /\ last.input \notin {"imperial", "metric"}

C13_InvalidUnitsReported ==
    InvalidUnits =>
        /\ "unit_type" \notin last.changed
        /\ last.ret # "void"

(* C13 as the code has it: the invalid value changes nothing at all, and    *)
(* the operation returns nothing and publishes nothing, as an accepted one  *)
(* does; the rejection is not visible in the outcome.                       *)
C13_InvalidUnitsIgnored ==
    /\ InvalidUnits => last.changed = {}
    /\ last.op = "update_units" => last.ret = "void" /\ out = <<>>

C13_Witness ==
    InvalidUnits /\ unit_type \in {"imperial", "metric"}

(* C14: a heartbeat runs the sampler only when the tick counter is strictly *)
(* past last_weather_check + RECHECK_WEATHER_INTERVAL; an earlier heartbeat *)
(* changes nothing of the station and notifies nobody; so two sample        *)
(* attempts of the heartbeat are more than the interval apart.              *)
C14_GatedSampling ==
    last.op = "yield" =>
        /\ "last_weather_check" \in last.changed
               => /\ millis > last.check + RECHECK_WEATHER_INTERVAL
                  /\ last_weather_check - last.check > RECHECK_WEATHER_INTERVAL
        /\ millis <= last.check + RECHECK_WEATHER_INTERVAL
               => last.changed = {} /\ out = <<>>
        /\ last.changed # {} => "last_weather_check" \in last.changed

C14_Witness ==
    /\ last.op = "yield"
    /\ millis = last.check + RECHECK_WEATHER_INTERVAL + 1
    /\ last_weather_check = millis
    /\ last.check > 0

(* C15: a publish or a send that fails during the firing transition is not  *)
(* retried and stops nothing: the firing hands the helper one publish and   *)
(* then one send whatever the helper made of the publish, and the alarm     *)
(* ends rung after a failure as after a success.                            *)
TransportFailed == \E i \in 1..Len(out) : ~out[i].ok

C15_FailureNotRetried ==
    /\ (Fired /\ TransportFailed) =>
           /\ Len(out) = 2
           /\ out[1].kind = "publish" /\ out[2].kind = "send"
           /\ next_alarm = [timestamp |-> T0, rang |-> TRUE]
    /\ TransportFailed =>
           /\ Cardinality(Publishes) <= 1 /\ Cardinality(Sends) <= 1
           /\ "last_observation" \in last.changed \/ last.op = "report_shadow_state"

C15_Witness ==
    /\ Fired /\ last.op = "yield"
    /\ Len(out) = 2
    /\ out[1].kind = "publish" /\ ~out[1].ok
    /\ out[2].kind = "send" /\ out[2].ok
    /\ next_alarm.rang

(* C16: update_tz(tz) stores tz as the time zone offset and, in the same    *)
(* call and in this order, sets the offset of the time source to tz * 60    *)
(* seconds and forces a resynchronisation; the next read of the time, and   *)
(* so every sample after it, has the new offset.                            *)
NetworkTime == BootEpoch + millis \div 1000

C16_TzReachesClock ==
    /\ last.op = "update_tz" =>
           /\ time_zone_offset = last.arg
           /\ timeClient.timeOffset = last.arg * 60
           /\ last.clock = <<[call |-> "setTimeOffset", offset |-> last.arg * 60],
                             [call |-> "forceUpdate"]>>
           /\ getEpochTime(timeClient, millis) = NetworkTime + last.arg * 60
    /\ SampledOk => E1 = NetworkTime + time_zone_offset * 60

C16_Witness ==
    /\ last.op = "update_tz"
    /\ "time_zone_offset" \in last.changed /\ "timeClient" \in last.changed
    /\ time_zone_offset # 0

(* C18: update_units, update_alt, update_tz, update_tnum and update_mnum    *)
(* each replace at most their own configuration field; every other          *)
(* configuration field, the alarm and the last observation stay as they     *)
(* were.                                                                    *)
ConfigFields ==
    {"unit_type", "location_altitude", "time_zone_offset",
     "twilio_device_number", "master_number"}

OwnField ==
    [update_units |-> "unit_type", update_alt |-> "location_altitude",
     update_tz |-> "time_zone_offset", update_tnum |-> "twilio_device_number",
     update_mnum |-> "master_number"]

C18_SingleFieldReplace ==
    last.op \in DOMAIN OwnField =>
        /\ last.changed \cap (ConfigFields \cup {"next_alarm", "last_observation"})
               \subseteq {OwnField[last.op]}
        /\ next_alarm = last.alarm
        /\ last_observation.epoch = E0
        /\ last.op = "update_alt" => location_altitude = last.arg
        /\ last.op = "update_tz" => time_zone_offset = last.arg
        /\ last.op = "update_tnum" => twilio_device_number = last.input
        /\ last.op = "update_mnum" => master_number = last.input
        /\ (last.op = "update_units" /\ ~InvalidUnits) => unit_type = last.input

C18_Witness ==
    /\ last.op = "update_mnum"
    /\ last.changed = {"master_number"}
    /\ master_number # twilio_device_number
    /\ ~next_alarm.rang

(* C17: for every valid observation, either unit system and any intro, the  *)
(* string get_weather_report returns is never longer than 160 bytes; nor is *)
(* the one the firing transition sends.                                     *)
Reported == last.op = "get_weather_report"

C17_ReportFits ==
    /\ Reported => \A n \in last.ret.chars : n <= 160
    /\ \A i \in Sends : \A n \in out[i].body.chars : n <= 160

C17_Witness ==
    /\ Reported
    /\ Len(last.input) > 70
    /\ last_observation.hour = 23 /\ last_observation.pressure = 110000
    /\ last.ret.chars = {SNPRINTF_SIZE - 1}

C17_WitnessSent ==
    /\ Sends # {} /\ last.op = "yield"
    /\ \A i \in Sends : out[i].body.hour = 23 /\ out[i].body.day = "Fri."

(* C19: the sea-level pressure of the report is _hpa_to_sea_level of the    *)
(* last observation's temperature, its station pressure and the configured  *)
(* altitude; no other field of the observation stands in for the            *)
(* temperature.                                                             *)
C19_SeaLevelFromTemperature ==
    Reported =>
        last.ret.pressure =
            dtostrf(_hpa_to_sea_level(Self, Milli(last_observation.temperature),
                                      Milli(last_observation.pressure),
                                      location_altitude), 8).shown

(* What the code shows: the humidity stands in for the temperature.         *)
C19_SeaLevelFromHumidity ==
    Reported =>
        last.ret.pressure =
            dtostrf(_hpa_to_sea_level(Self, Milli(last_observation.humidity),
                                      Milli(last_observation.pressure),
                                      location_altitude), 8).shown

(* C20: the day of the week of the last observation is always in 0..6, so   *)
(* the lookup in the table of seven day names stays inside the table.       *)
C20_DayInTable ==
    /\ last_observation.day \in 0..6
    /\ Reported => last.ret.day = DayNames[last_observation.day + 1]
    /\ \A i \in Sends : \E d \in 1..7 : out[i].body.day = DayNames[d]

C20_Witness ==
    /\ Reported
    /\ last_observation.day = 6
    /\ last_observation.epoch > BootEpoch
    /\ last.ret.day = "Sat."


(* C21: while the observed epochs never go back, a timestamp T takes the    *)
(* firing transition at most once, whatever update_alarm calls, setters     *)
(* and samples come in between: re-arming to another value and back to T    *)
(* leaves T rung.                                                           *)
C21_FiresAtMostOnce ==
    last.ordered => \A t \in AlarmTimes : last.fired[t] <= 1

(* T has fired, the alarm was moved to another timestamp, and update_alarm  *)
(* has just moved it back to T: T is rung.                                  *)
C21_Witness ==
    /\ AlarmCalled /\ last.arg \in AlarmTimes /\ last.arg # T0 /\ T0 # 0
    /\ last.fired[last.arg] = 1
    /\ last.ordered
    /\ next_alarm = [timestamp |-> last.arg, rang |-> TRUE]


(* C23: every sample attempt of the heartbeat, a faulted one included, sets *)
(* last_weather_check to the current tick; a heartbeat that does not sample *)
(* leaves it; and an attempt happens only more than a sample interval past  *)
(* the tick of the attempt before it, so a fault costs one sample and no    *)
(* more.                                                                    *)
C23_EveryAttemptResetsGate ==
    /\ (last.op = "yield" /\ last.sampled) =>
           /\ last_weather_check = millis
           /\ millis - last.check > RECHECK_WEATHER_INTERVAL
    /\ (last.op = "yield" /\ SampledFault) =>
           /\ last.changed = {"last_weather_check"}
           /\ ~Notified
    /\ (last.op = "yield" /\ ~last.sampled) => last_weather_check = last.check

(* A heartbeat whose sample faulted has moved the last sample tick *)
C23_Witness ==
    /\ last.op = "yield" /\ SampledFault
    /\ last_weather_check = millis /\ last.check < millis
    /\ E1 = E0

(* The attempt after a faulted one: the observation is still the one of the *)
(* boot, the attempt before this one was at the first open tick and this    *)
(* one comes a full interval and a tick after it.                           *)
C23_WitnessNextAttempt ==
    /\ last.op = "yield" /\ SampledOk
    /\ E0 = BootEpoch
    /\ last.check = RECHECK_WEATHER_INTERVAL + 1
    /\ millis = last.check + RECHECK_WEATHER_INTERVAL + 1


(* C22: sampling never stops: with the heartbeat called for ever at         *)
(* advancing ticks, sample attempts keep coming, after the tick counter has *)
(* wrapped as before.                                                       *)
C22_SamplingNeverStops == []<>(last.op = "yield" /\ last.sampled)

(* Once a sample attempt has fallen on one of the last                      *)
(* RECHECK_WEATHER_INTERVAL + 1 ticks before the wrap, no heartbeat at any  *)
(* tick moves last_weather_check again.                                     *)
C22_GateShutForGood ==
    [][(last_weather_check < 0 /\ last_weather_check >= 0 - (RECHECK_WEATHER_INTERVAL + 1))
          => last_weather_check' = last_weather_check]_vars

(* The gate is shut for good and the heartbeat goes on being called *)
C22_ShutReached ==
    /\ last.op = "yield" /\ ~last.sampled
    /\ last_weather_check < 0 /\ last_weather_check >= 0 - (RECHECK_WEATHER_INTERVAL + 1)
    /\ millis > RECHECK_WEATHER_INTERVAL /\ millis < INT32_MAX

====
